---- MODULE Spec2Model ----
(***************************************************************************)
(* Bundle routing through waypoints                                        *)
(* (gdsfactory/routing/get_bundle_from_waypoints.py).                      *)
(*                                                                         *)
(* A point is a pair <<x, y>>, a segment a pair of points, a port a record *)
(* [name, x, y, angle].  Port.angle and Port.orientation are one attribute *)
(* (angle is the alias), Port.midpoint = Port.position = <<x, y>>.         *)
(* Coordinates, offsets and the separation are integers: on integers the   *)
(* tolerance test abs(d) < 1e-5 is d = 0.                                  *)
(***************************************************************************)
EXTENDS Integers, Sequences, FiniteSets

---------------------------------------------------------------------------
(* Bounds of the checked inputs *)

MaxPorts == 3

MaxWaypoints == 2

Coords == 0 .. 2

Separations == {0, 2}

RawAngles == {0, 90, 180, 270, -90}

---------------------------------------------------------------------------
(* Arithmetic helpers *)

Abs(a) == IF a < 0 THEN -a ELSE a

\* numpy.sign
Sign(a) == IF a > 0 THEN 1 ELSE IF a < 0 THEN -1 ELSE 0

Last(s) == s[Len(s)]

Reverse(s) == [k \in 1 .. Len(s) |-> s[Len(s) + 1 - k]]

\* a function over 1 .. n as a sequence
AsSeq(f, n) == SubSeq(f, 1, n)

---------------------------------------------------------------------------
(* Ports *)

position(p) == <<p.x, p.y>>

\* p.angle = int(p.angle) % 360
normalized(p) == [p EXCEPT !.angle = p.angle % 360]

\* the orientation shared by the ports of a bundle
get_list_ports_angle(list_ports) == list_ports[1].angle

---------------------------------------------------------------------------
(* Segments *)

_is_vertical(s) == Abs(s[1][1] - s[2][1]) = 0

\* variant of _is_horizontal with a tolerance of one grid unit
_is_horizontal_loose(s) == Abs(s[1][2] - s[2][2]) <= 1

_is_horizontal(s) == Abs(s[1][2] - s[2][2]) = 0

_segment_sign(s) ==
    IF _is_vertical(s) THEN Sign(s[2][2] - s[1][2])
    ELSE IF _is_horizontal(s) THEN Sign(s[2][1] - s[1][1])
    ELSE "None"

---------------------------------------------------------------------------
(* Waypoint path normalizer (remove_flat_angles)                           *)
(* An interior point is redundant when it lies on a horizontal or on a     *)
(* vertical run with its two neighbours and the path does not turn back at *)
(* it.  The end points are never removed.                                  *)

Redundant(pts, k) ==
    /\ 1 < k
    /\ k < Len(pts)
    /\ \/ /\ _is_horizontal(<<pts[k - 1], pts[k]>>)
          /\ _is_horizontal(<<pts[k], pts[k + 1]>>)
          /\ Sign(pts[k][1] - pts[k - 1][1]) * Sign(pts[k + 1][1] - pts[k][1]) >= 0
       \/ /\ _is_vertical(<<pts[k - 1], pts[k]>>)
          /\ _is_vertical(<<pts[k], pts[k + 1]>>)
          /\ Sign(pts[k][2] - pts[k - 1][2]) * Sign(pts[k + 1][2] - pts[k][2]) >= 0

RemoveAt(pts, k) == SubSeq(pts, 1, k - 1) \o SubSeq(pts, k + 1, Len(pts))

\* redundant points are removed, the leftmost first, until none is left;
\* no point before k is redundant
RECURSIVE CollapseFrom(_, _)
CollapseFrom(pts, k) ==
    IF k >= Len(pts) THEN pts
    ELSE IF Redundant(pts, k)
         THEN CollapseFrom(RemoveAt(pts, k), IF k > 2 THEN k - 1 ELSE 2)
         ELSE CollapseFrom(pts, k + 1)

Collapse(pts) == CollapseFrom(pts, 2)

\* InvalidPathError: a segment of the collapsed path is neither horizontal
\* nor vertical
InvalidPath(pts) ==
    \E k \in 1 .. Len(pts) - 1 :
        /\ ~_is_horizontal(<<pts[k], pts[k + 1]>>)
        /\ ~_is_vertical(<<pts[k], pts[k + 1]>>)

remove_flat_angles(points) ==
    LET pts == Collapse(points)
    IN [error |-> IF InvalidPath(pts) THEN "InvalidPath" ELSE "none", points |-> pts]

---------------------------------------------------------------------------
(* Offset calculator *)

get_ports_x_or_y_distances(list_ports, ref_point) ==
    IF Len(list_ports) = 0 THEN << >>
    ELSE IF get_list_ports_angle(list_ports) \in {0, 180}
         THEN [k \in 1 .. Len(list_ports) |-> list_ports[k].y - ref_point[2]]
         ELSE [k \in 1 .. Len(list_ports) |-> list_ports[k].x - ref_point[1]]

\* variant of ambiguous_separation that falls back to the start offsets
ambiguous_separation_ignored(offsets_start) ==
    [error |-> "none", offsets |-> offsets_start]

\* lines 220-221: the ValueError raised when neither end offset is zero
ambiguous_separation(offsets_start) ==
    [error |-> "AmbiguousSeparation", offsets |-> << >>]

\* lines 208-223: the mid-path offsets, or the error raised computing them.
\* offsets_start[1] (Python) of a one-element list, and offsets_start[-2],
\* raise IndexError.
offsets_mid_of(offsets_start, separation) ==
    LET n == Len(offsets_start) IN
    IF separation # 0
    THEN IF offsets_start[1] = 0
         THEN IF n < 2
              THEN [error |-> "IndexError", offsets |-> << >>]
              ELSE [error |-> "none",
                    offsets |-> [k \in 1 .. n |->
                                    Sign(offsets_start[2]) * separation * (k - 1)]]
         ELSE IF offsets_start[n] = 0
              THEN [error |-> "none",
                    offsets |-> Reverse([k \in 1 .. n |->
                                    Sign(offsets_start[n - 1]) * separation * (k - 1)])]
              ELSE ambiguous_separation(offsets_start)
    ELSE [error |-> "none", offsets |-> offsets_start]

\* variant of flipped that never negates
flipped_never(start_angle, offsets) == offsets

\* lines 225-228: the offsets as the displacement step uses them
flipped(start_angle, offsets) ==
    IF start_angle \in {90, 270}
    THEN [k \in 1 .. Len(offsets) |-> -offsets[k]]
    ELSE offsets

---------------------------------------------------------------------------
(* Segment displacer and intersector *)

Manhattan(s) == _is_horizontal(s) \/ _is_vertical(s)

\* a segment that is neither horizontal nor vertical raises ValueError
\* (step_error); the displaced copy is defined for the others
_displace_segment_copy(s, a, sh, sv) ==
    LET sign_seg == _segment_sign(s)
        dp == IF _is_horizontal(s) THEN <<0, sh * sign_seg * a>>
              ELSE IF _is_vertical(s) THEN <<sv * sign_seg * a, 0>>
              ELSE <<0, 0>>
    IN <<<<s[1][1] + dp[1], s[1][2] + dp[2]>>, <<s[2][1] + dp[1], s[2][2] + dp[2]>>>>

\* variant of _displace_segment_copy_group1 with the same handedness on both
\* axes
_displace_segment_copy_group1_even(s, a) == _displace_segment_copy(s, a, 1, 1)

_displace_segment_copy_group1(s, a) == _displace_segment_copy(s, a, 1, -1)

\* _intersection raises ValueError unless one segment is horizontal and the
\* other vertical
Intersects(s1, s2) ==
    \/ _is_horizontal(s1) /\ _is_vertical(s2)
    \/ _is_horizontal(s2) /\ _is_vertical(s1)

_intersection(s1, s2) ==
    IF _is_horizontal(s1) /\ _is_vertical(s2)
    THEN <<s2[1][1], s1[1][2]>>
    ELSE <<s1[1][1], s2[1][2]>>

---------------------------------------------------------------------------
(* Endpoint snapper *)

\* variant of snap_route_to_end_point_x that snaps the last point only
snap_route_to_end_point_x_last(route, x) ==
    LET n == Len(route)
    IN [k \in 1 .. n |-> IF k >= n THEN <<x, route[k][2]>> ELSE route[k]]

snap_route_to_end_point_x(route, x) ==
    LET n == Len(route)
    IN [k \in 1 .. n |-> IF k >= n - 1 THEN <<x, route[k][2]>> ELSE route[k]]

\* variant of snap_route_to_end_point_y that snaps the last three points
snap_route_to_end_point_y_three(route, y) ==
    LET n == Len(route)
    IN [k \in 1 .. n |-> IF k >= n - 2 THEN <<route[k][1], y>> ELSE route[k]]

snap_route_to_end_point_y(route, y) ==
    LET n == Len(route)
    IN [k \in 1 .. n |-> IF k >= n - 1 THEN <<route[k][1], y>> ELSE route[k]]

---------------------------------------------------------------------------
(* _generate_manhattan_bundle_waypoints *)

way_segments_of(waypoints) ==
    AsSeq([k \in 1 .. Len(waypoints) - 1 |-> <<waypoints[k], waypoints[k + 1]>>],
          Len(waypoints) - 1)

\* variant of seg_sep_of that reads the mid-path offset of the first port
seg_sep_of_first(offsets_start, offsets_mid, i, j) ==
    IF j = 1 THEN offsets_start[i] ELSE offsets_mid[1]

\* seg_sep of iteration j (j = 1 is the first) of the inner loop for port i
seg_sep_of(offsets_start, offsets_mid, i, j) ==
    IF j = 1 THEN offsets_start[i] ELSE offsets_mid[i]

\* prev_seg_sep of iteration j > 1: the seg_sep of iteration j - 1
prev_seg_sep_of(offsets_start, offsets_mid, i, j) ==
    seg_sep_of(offsets_start, offsets_mid, i, j - 1)

\* d_seg of every iteration (line 287)
d_segs_of(segs, offsets_start, offsets_mid, i) ==
    AsSeq([j \in 1 .. Len(segs) |->
              _displace_segment_copy_group1(
                  segs[j], seg_sep_of(offsets_start, offsets_mid, i, j))],
          Len(segs))

\* tmp_seg of every iteration j > 1 (lines 292-293); none in the first
tmp_segs_of(segs, offsets_start, offsets_mid, i) ==
    AsSeq([j \in 1 .. Len(segs) |->
              _displace_segment_copy_group1(
                  segs[IF j = 1 THEN 1 ELSE j - 1],
                  prev_seg_sep_of(offsets_start, offsets_mid, i, IF j = 1 THEN 2 ELSE j))],
          Len(segs))

\* start_point of iteration j (lines 289-294)
start_point_of(d_segs, tmp_segs, j) ==
    IF j = 1 THEN d_segs[1][1] ELSE _intersection(d_segs[j], tmp_segs[j])

\* the error iteration j raises, "none" when it raises none
step_error(segs, d_segs, tmp_segs, j) ==
    IF ~Manhattan(segs[j]) THEN "InvalidPath"
    ELSE IF j > 1 /\ ~Intersects(d_segs[j], tmp_segs[j])
         THEN "NonManhattanIntersection"
         ELSE "none"

\* the first error the inner loop raises, "none" when it raises none
loop_error(segs, d_segs, tmp_segs) ==
    LET bad == {j \in 1 .. Len(segs) : step_error(segs, d_segs, tmp_segs, j) # "none"}
    IN IF bad = {} THEN "none"
       ELSE step_error(segs, d_segs, tmp_segs, CHOOSE j \in bad : \A h \in bad : j <= h)

\* lines 298-306: the end point is appended and the last two points snapped
snapped(route, end_point, end_angle) ==
    IF end_angle \in {0, 180}
    THEN snap_route_to_end_point_y(Append(route, end_point), end_point[2])
    ELSE snap_route_to_end_point_x(Append(route, end_point), end_point[1])

\* the loop body for port i (lines 279-308): the error it raises and, when it
\* raises none, the route as it is handed to the snapper (the corners and the
\* end point, line 301) and the route it appends
route_of(ports2, segs, offsets_start, offsets_mid, end_angle, i) ==
    LET d_segs == d_segs_of(segs, offsets_start, offsets_mid, i)
        tmp_segs == tmp_segs_of(segs, offsets_start, offsets_mid, i)
        err == loop_error(segs, d_segs, tmp_segs)
        corners == AsSeq([j \in 1 .. Len(segs) |->
                             start_point_of(d_segs, tmp_segs, j)], Len(segs))
    IN [error |-> err,
        unsnapped |-> IF err # "none" THEN << >>
                      ELSE Append(corners, position(ports2[i])),
        route |-> IF err # "none" THEN << >>
                  ELSE snapped(corners, position(ports2[i]), end_angle)]

\* variant of port_indices that stops one port short
port_indices_short(ports1) == 1 .. Len(ports1) - 1

\* range(N), N = len(ports1)
port_indices(ports1) == 1 .. Len(ports1)

\* variant of first_point_forced that keeps the first point the displacement
\* computed
first_point_kept(route, port) == route

\* lines 310-311: route[0] = start_point.midpoint
first_point_forced(route, port) == [route EXCEPT ![1] = position(port)]

_generate_manhattan_bundle_waypoints(ports1, ports2, waypoints, separation) ==
    LET nf == remove_flat_angles(waypoints)
        segs == way_segments_of(nf.points)
        o_start == get_ports_x_or_y_distances(ports1, nf.points[1])
        mid == offsets_mid_of(o_start, separation)
        start_angle == ports1[1].angle
        end_angle == ports2[1].angle
        d_start == flipped(start_angle, o_start)
        d_mid == flipped(start_angle, mid.offsets)
        idx == port_indices(ports1)
        built == AsSeq([i \in idx |->
                           route_of(ports2, segs, d_start, d_mid, end_angle, i)],
                       Cardinality(idx))
        failed == {i \in idx : built[i].error # "none"}
    IN IF nf.error # "none"
       THEN [error |-> nf.error, routes |-> << >>, unsnapped |-> << >>,
             offsets_start |-> << >>, offsets_mid |-> << >>, path |-> << >>]
       ELSE IF mid.error # "none"
       THEN [error |-> mid.error, routes |-> << >>, unsnapped |-> << >>,
             offsets_start |-> o_start, offsets_mid |-> << >>, path |-> nf.points]
       ELSE IF failed # {}
       THEN [error |-> built[CHOOSE i \in failed : \A h \in failed : i <= h].error,
             routes |-> << >>, unsnapped |-> << >>,
             offsets_start |-> o_start, offsets_mid |-> mid.offsets, path |-> nf.points]
       ELSE [error |-> "none",
             routes |-> [i \in idx |-> first_point_forced(built[i].route, ports1[i])],
             unsnapped |-> [i \in idx |-> built[i].unsnapped],
             offsets_start |-> o_start, offsets_mid |-> mid.offsets, path |-> nf.points]

---------------------------------------------------------------------------
(* get_bundle_from_waypoints *)

Cardinal == {0, 90, 180, 270}

\* angles_to_sorttypes
angles_to_sorttypes(start_angle, end_angle) ==
    CASE <<start_angle, end_angle>> = <<0, 180>> -> <<"Y", "Y">>
      [] <<start_angle, end_angle>> = <<0, 90>> -> <<"Y", "X">>
      [] <<start_angle, end_angle>> = <<0, 0>> -> <<"Y", "-Y">>
      [] <<start_angle, end_angle>> = <<0, 270>> -> <<"Y", "-X">>
      [] <<start_angle, end_angle>> = <<90, 0>> -> <<"X", "Y">>
      [] <<start_angle, end_angle>> = <<90, 90>> -> <<"X", "-X">>
      [] <<start_angle, end_angle>> = <<90, 180>> -> <<"X", "-Y">>
      [] <<start_angle, end_angle>> = <<90, 270>> -> <<"X", "X">>
      [] <<start_angle, end_angle>> = <<180, 90>> -> <<"Y", "-X">>
      [] <<start_angle, end_angle>> = <<180, 0>> -> <<"Y", "Y">>
      [] <<start_angle, end_angle>> = <<180, 270>> -> <<"Y", "X">>
      [] <<start_angle, end_angle>> = <<180, 180>> -> <<"Y", "-Y">>
      [] <<start_angle, end_angle>> = <<270, 90>> -> <<"X", "X">>
      [] <<start_angle, end_angle>> = <<270, 270>> -> <<"X", "-X">>
      [] <<start_angle, end_angle>> = <<270, 0>> -> <<"X", "-Y">>
      [] <<start_angle, end_angle>> = <<270, 180>> -> <<"X", "Y">>

\* dict_sorts
dict_sorts(st, p) ==
    CASE st = "X" -> p.x
      [] st = "Y" -> p.y
      [] st = "-X" -> -p.x
      [] st = "-Y" -> -p.y

\* variant of sorted_by that leaves the list in its input order
sorted_by_kept(ports, st) == ports

\* list.sort(key=...): stable, ascending in the key
sorted_by(ports, st) ==
    LET n == Len(ports)
        key == AsSeq([a \in 1 .. n |-> dict_sorts(st, ports[a])], n)
        rank == AsSeq([a \in 1 .. n |->
                    1 + Cardinality({b \in 1 .. n :
                            key[b] < key[a] \/ (key[b] = key[a] /\ b < a)})], n)
    IN [k \in 1 .. n |-> ports[CHOOSE a \in 1 .. n : rank[a] = k]]

\* lines 100-104
angles_normalized(ports) == [k \in 1 .. Len(ports) |-> normalized(ports[k])]

\* line 108
full_waypoints(p1, p2, wps) == <<position(p1[1])>> \o wps \o <<position(p2[1])>>

\* variant of count_mismatch raising after the angles are normalized
count_mismatch_late(p1, p2) ==
    [error |-> "PortCountMismatch",
     ports1 |-> [k \in 1 .. Len(p1) |-> [p1[k] EXCEPT !.angle = p1[k].angle % 360]],
     ports2 |-> [k \in 1 .. Len(p2) |-> [p2[k] EXCEPT !.angle = p2[k].angle % 360]],
     routes |-> << >>, unsnapped |-> << >>, offsets_start |-> << >>,
     offsets_mid |-> << >>, path |-> << >>]

\* lines 94-98: the ValueError raised on bundles of different lengths, first
\* thing in the call
count_mismatch(p1, p2) ==
    [error |-> "PortCountMismatch", ports1 |-> p1, ports2 |-> p2,
     routes |-> << >>, unsnapped |-> << >>, offsets_start |-> << >>,
     offsets_mid |-> << >>, path |-> << >>]

\* the call: the error it raises ("none" when it returns), the caller's two
\* lists as the call leaves them, and the routes handed to round_corners
get_bundle_from_waypoints(p1, p2, wps, sort, separation) ==
    IF Len(p2) # Len(p1)
    THEN count_mismatch(p1, p2)
    ELSE LET n1 == angles_normalized(p1)
             n2 == angles_normalized(p2)
             st == angles_to_sorttypes(n1[1].angle, n2[1].angle)
             s1 == IF sort THEN sorted_by(n1, st[1]) ELSE n1
             s2 == IF sort THEN sorted_by(n2, st[2]) ELSE n2
             g == _generate_manhattan_bundle_waypoints(
                      s1, s2, full_waypoints(n1, n2, wps), separation)
         IN [error |-> g.error, ports1 |-> s1, ports2 |-> s2, routes |-> g.routes,
             unsnapped |-> g.unsnapped,
             offsets_start |-> g.offsets_start, offsets_mid |-> g.offsets_mid,
             path |-> g.path]

---------------------------------------------------------------------------
(* The caller's inputs *)

\* a bundle of ports facing `angle`, side by side on the edge of the grid
\* they face away from (x = 0 for 0, y = 0 for 90, x = 2 for 180, y = 2 for
\* 270), port k at the lateral coordinate lat[k]
Bundle(lat, angle) ==
    LET along == IF angle % 360 \in {0, 90} THEN 0 ELSE 2
    IN [k \in 1 .. Len(lat) |->
           IF angle % 360 \in {0, 180}
           THEN [name |-> k, x |-> along, y |-> lat[k], angle |-> angle]
           ELSE [name |-> k, x |-> lat[k], y |-> along, angle |-> angle]]

\* the lateral coordinates of a source bundle: any for its first port, the
\* others in ascending order
SourceLaterals ==
    UNION {{l \in [1 .. n -> Coords] : \A k \in 2 .. n - 1 : l[k] <= l[k + 1]} :
               n \in 1 .. MaxPorts}

Points == Coords \X Coords

WaypointLists == UNION {[1 .. n -> Points] : n \in 0 .. MaxWaypoints}

\* a path that turns by a right angle at each of its points; its first and
\* its last point may be repeated
ProperCorners(pts) ==
    /\ \A k \in 1 .. Len(pts) - 1 :
           pts[k][1] = pts[k + 1][1] \/ pts[k][2] = pts[k + 1][2]
    /\ \A k \in 2 .. Len(pts) - 2 : pts[k] # pts[k + 1]
    /\ \A k \in 1 .. Len(pts) - 2 :
           (pts[k] # pts[k + 1] /\ pts[k + 1] # pts[k + 2])
               => ((pts[k][1] = pts[k + 1][1]) # (pts[k + 1][1] = pts[k + 2][1]))

\* the waypoint lists tried between two reference points: every list of at
\* most one waypoint (diagonal, flat and backward ones included), and the
\* longer lists that are proper corner sequences
WaypointsFor ==
    [p \in Points, q \in Points |->
        {w \in WaypointLists : Len(w) <= 1 \/ ProperCorners(<<p>> \o w \o <<q>>)}]

---------------------------------------------------------------------------
(* State *)

VARIABLES
    ports1,         \* the caller's first list of ports
    ports2,         \* the caller's second list of ports
    waypoints,      \* the caller's waypoints
    sort_ports,     \* the sort_ports argument
    separation,     \* the separation argument, 0 when none is given
    pc,             \* "call" before the call, "returned" or "raised" after it
    error,          \* the error the call raised, "none" when it raised none
    routes,         \* the routes handed to round_corners
    unsnapped,      \* the routes as the loop handed them to the snapper
    order,          \* the port indices the loop has visited, in visiting order
    offsets_start,  \* the start offsets (line 207)
    offsets_mid,    \* the mid-path offsets (lines 208-223)
    path,           \* the normalized waypoints (line 205)
    given1,         \* ports1 as the caller supplied it
    given2          \* ports2 as the caller supplied it

vars == <<ports1, ports2, waypoints, sort_ports, separation, pc, error, routes,
          unsnapped, order, offsets_start, offsets_mid, path, given1, given2>>

\* ports1: the reference port first, at any lateral coordinate, the others
\* after it in ascending order of theirs; ports2: consecutive lateral
\* coordinates, as many as ports1 or (with no waypoints) one more
Init ==
    /\ \E l1 \in SourceLaterals, extra \in {0, 1}, s2 \in Coords,
          a1 \in RawAngles, a2 \in Cardinal :
           /\ ports1 = Bundle(l1, a1)
           /\ ports2 = Bundle([k \in 1 .. Len(l1) + extra |-> s2 + k - 1], a2)
           /\ IF extra = 0
              THEN waypoints \in WaypointsFor[position(ports1[1]), position(ports2[1])]
              ELSE waypoints = << >>
    /\ sort_ports \in BOOLEAN
    /\ separation \in Separations
    /\ pc = "call"
    /\ error = "none"
    /\ routes = << >>
    /\ unsnapped = << >>
    /\ order = << >>
    /\ offsets_start = << >>
    /\ offsets_mid = << >>
    /\ path = << >>
    /\ given1 = ports1
    /\ given2 = ports2

\* one call of get_bundle_from_waypoints
Call ==
    /\ pc = "call"
    /\ \E r \in {get_bundle_from_waypoints(ports1, ports2, waypoints,
                                             sort_ports, separation)} :
          /\ ports1' = r.ports1
          /\ ports2' = r.ports2
          /\ error' = r.error
          /\ routes' = r.routes
          /\ unsnapped' = r.unsnapped
          /\ order' = [k \in 1 .. Len(r.routes) |-> k]
          /\ offsets_start' = r.offsets_start
          /\ offsets_mid' = r.offsets_mid
          /\ path' = r.path
          /\ pc' = IF r.error = "none" THEN "returned" ELSE "raised"
    /\ UNCHANGED <<waypoints, sort_ports, separation, given1, given2>>

Next == Call

Spec == Init /\ [][Next]_vars

---------------------------------------------------------------------------
(* The loop over the ports, one route at a time in any order *)

\* the call up to the loop of line 278 (lines 94-229): the error raised
\* before the loop ("none" when the loop is reached), the two lists, the
\* normalized path and the offset tables
prepared(p1, p2, wps, sort, sep) ==
    IF Len(p2) # Len(p1)
    THEN [error |-> "PortCountMismatch", ports1 |-> p1, ports2 |-> p2,
          offsets_start |-> << >>, offsets_mid |-> << >>, path |-> << >>]
    ELSE LET n1 == angles_normalized(p1)
             n2 == angles_normalized(p2)
             st == angles_to_sorttypes(n1[1].angle, n2[1].angle)
             s1 == IF sort THEN sorted_by(n1, st[1]) ELSE n1
             s2 == IF sort THEN sorted_by(n2, st[2]) ELSE n2
             nf == remove_flat_angles(full_waypoints(n1, n2, wps))
             o_start == get_ports_x_or_y_distances(s1, nf.points[1])
             mid == offsets_mid_of(o_start, sep)
         IN IF nf.error # "none"
            THEN [error |-> nf.error, ports1 |-> s1, ports2 |-> s2,
                  offsets_start |-> << >>, offsets_mid |-> << >>, path |-> << >>]
            ELSE [error |-> mid.error, ports1 |-> s1, ports2 |-> s2,
                  offsets_start |-> o_start, offsets_mid |-> mid.offsets,
                  path |-> nf.points]

\* the call reaches the loop with routes = [] (line 276), or raises before it
Start ==
    /\ pc = "call"
    /\ \E r \in {prepared(ports1, ports2, waypoints, sort_ports, separation)} :
          /\ ports1' = r.ports1
          /\ ports2' = r.ports2
          /\ error' = r.error
          /\ offsets_start' = r.offsets_start
          /\ offsets_mid' = r.offsets_mid
          /\ path' = r.path
          /\ routes' = << >>
          /\ unsnapped' = << >>
          /\ order' = << >>
          /\ pc' = IF r.error = "none" THEN "building" ELSE "raised"
    /\ UNCHANGED <<waypoints, sort_ports, separation, given1, given2>>

\* the ports the loop has visited
visited == {order[k] : k \in DOMAIN order}

\* one iteration of the loop of lines 278-308, for any port i not visited
\* yet: the route is appended to routes (routes += [route], line 308), or the
\* error it raises ends the call
Build(i) ==
    /\ pc = "building"
    /\ i \in port_indices(ports1) \ visited
    /\ \E b \in {route_of(ports2, way_segments_of(path),
                           flipped(ports1[1].angle, offsets_start),
                           flipped(ports1[1].angle, offsets_mid),
                           ports2[1].angle, i)} :
          IF b.error # "none"
          THEN /\ error' = b.error
               /\ routes' = << >>
               /\ unsnapped' = << >>
               /\ order' = << >>
               /\ pc' = "raised"
          ELSE /\ routes' = Append(routes, b.route)
               /\ unsnapped' = Append(unsnapped, b.unsnapped)
               /\ order' = Append(order, i)
               /\ UNCHANGED <<error, pc>>
    /\ UNCHANGED <<ports1, ports2, waypoints, sort_ports, separation,
                   offsets_start, offsets_mid, path, given1, given2>>

\* lines 310-312: every port visited, zip(routes, ports1) overwrites the
\* first point of the k-th route appended with the position of ports1[k],
\* and the routes are returned
Finish ==
    /\ pc = "building"
    /\ visited = port_indices(ports1)
    /\ routes' = [k \in 1 .. Len(routes) |-> first_point_forced(routes[k], ports1[k])]
    /\ pc' = "returned"
    /\ UNCHANGED <<ports1, ports2, waypoints, sort_ports, separation, error,
                   unsnapped, order, offsets_start, offsets_mid, path, given1,
                   given2>>

BuildAny == \E i \in 1 .. MaxPorts : Build(i)

\* the calls the loop is explored on: sorting enabled, bundles of equal
\* length, the source bundle facing 0 or 270, the destination bundle facing
\* 90 or 180 (one orientation for each snapper) at the lateral coordinates
\* 0, 1, ...
InitAnyOrder ==
    /\ \E l1 \in SourceLaterals, a1 \in {0, 270}, a2 \in {90, 180} :
           /\ ports1 = Bundle(l1, a1)
           /\ ports2 = Bundle([k \in 1 .. Len(l1) |-> k - 1], a2)
           /\ waypoints \in WaypointsFor[position(ports1[1]), position(ports2[1])]
    /\ sort_ports = TRUE
    /\ separation \in Separations
    /\ pc = "call"
    /\ error = "none"
    /\ routes = << >>
    /\ unsnapped = << >>
    /\ order = << >>
    /\ offsets_start = << >>
    /\ offsets_mid = << >>
    /\ path = << >>
    /\ given1 = ports1
    /\ given2 = ports2

NextAnyOrder == Start \/ BuildAny \/ Finish

SpecAnyOrder == InitAnyOrder /\ [][NextAnyOrder]_vars

---------------------------------------------------------------------------
(* Properties *)

Returned == pc = "returned"

Raised == pc = "raised"

\* the waypoint path the call routes along, before it is normalized
RoutingPath == <<position(given1[1])>> \o waypoints \o <<position(given2[1])>>

Aligned(p, q) == p[1] = q[1] \/ p[2] = q[2]

\* route i runs from ports1[i] to ports2[i]
Connects(i) ==
    /\ routes[i][1] = position(ports1[i])
    /\ routes[i][Len(routes[i])] = position(ports2[i])

\* C1: every route starts at the exact position of its source port and
\* ends at the exact position of its destination port, the ports taken in
\* routing order
C1_RoutesEndAtPorts ==
    Returned => \A i \in DOMAIN routes : Connects(i)

\* a returned call whose sort reordered the source bundle and whose routes
\* have corners
C1_Witness ==
    /\ Returned
    /\ Len(routes) >= 2
    /\ ports1 # angles_normalized(given1)
    /\ Len(routes[2]) >= 3
    /\ offsets_start[2] # 0

\* C2: consecutive points of every route form a horizontal or a vertical
\* segment
C2_RoutesManhattan ==
    Returned =>
        \A i \in DOMAIN routes : \A k \in 1 .. Len(routes[i]) - 1 :
            Aligned(routes[i][k], routes[i][k + 1])


\* the normalized path leaves the source bundle along the axis its ports
\* face and reaches the destination bundle along the axis its ports face
PathFollowsPorts ==
    /\ Len(path) >= 3
    /\ (ports1[1].angle \in {0, 180}) = (path[1][2] = path[2][2])
    /\ (ports2[1].angle \in {0, 180}) = (path[Len(path) - 1][2] = path[Len(path)][2])

\* C2 on the calls with sorting enabled whose path follows the ports
C2_RoutesManhattanAlongPorts ==
    (Returned /\ sort_ports /\ PathFollowsPorts) => C2_RoutesManhattan

\* the interior corners of route i: its points but the first and the last
InteriorCorners(i) == 2 .. Len(routes[i]) - 1

\* the two coordinates of corner j of routes i and k differ by d
DiffersBy(i, k, j, c, d) == Abs(routes[i][j][c] - routes[k][j][c]) = Abs(d)

\* the coordinate the endpoint snapper overwrites: y (2) for a destination
\* bundle facing 0 or 180, x (1) otherwise
SnappedCoordinate == IF ports2[1].angle \in {0, 180} THEN 2 ELSE 1

\* the scenario of the parallel-fan property, at the scale of the grid: two
\* source ports one unit apart facing 0, two destination ports facing 180,
\* the waypoints being the two reference positions
FanScenario ==
    /\ given1 = Bundle(<<0, 1>>, 0)
    /\ given2 = Bundle(<<0, 1>>, 180)
    /\ waypoints = <<<<0, 0>>, <<2, 0>>>>
    /\ separation = 0

\* C3 as claimed: with no separation, every interior corner of two routes
\* with distinct start offsets differs in both coordinates by the difference
\* of the two start offsets
C3_FanAllCorners ==
    (Returned /\ separation = 0) =>
        \A i \in DOMAIN routes : \A k \in DOMAIN routes :
            offsets_start[i] # offsets_start[k] =>
                \A j \in InteriorCorners(i) : \A c \in {1, 2} :
                    DiffersBy(i, k, j, c, offsets_start[i] - offsets_start[k])

\* C3 amended: with no separation, every interior corner but the last
\* differs in both coordinates by the difference of the two start offsets;
\* the last interior corner does so in the coordinate that is not snapped,
\* and its snapped coordinate is the one of its own destination port; in the
\* scenario the two routes are one unit apart and end at x = 2
C3_FanUnsnappedCorners ==
    /\ (Returned /\ separation = 0) =>
        \A i \in DOMAIN routes : \A k \in DOMAIN routes :
            \A j \in InteriorCorners(i) : \A c \in {1, 2} :
                IF j = Len(routes[i]) - 1 /\ c = SnappedCoordinate
                THEN routes[i][j][c] = position(ports2[i])[c]
                ELSE DiffersBy(i, k, j, c, offsets_start[i] - offsets_start[k])
    /\ (Returned /\ FanScenario) =>
        routes = <<<<<<0, 0>>, <<2, 0>>>>, <<<<0, 1>>, <<2, 1>>>>>>

\* two routes with different start offsets, a corner before the last one,
\* and a last corner the snapper moved off the fan
C3_Witness ==
    /\ Returned
    /\ separation = 0
    /\ Len(routes) >= 2
    /\ Len(routes[1]) >= 4
    /\ offsets_start[1] # offsets_start[2]
    /\ ~DiffersBy(1, 2, Len(routes[1]) - 1, SnappedCoordinate,
                  offsets_start[1] - offsets_start[2])

\* twice the signed area of the triangle o, a, b
Cross(o, a, b) == (a[1] - o[1]) * (b[2] - o[2]) - (a[2] - o[2]) * (b[1] - o[1])

\* r, on the line through p and q, lies between them
Between(p, q, r) ==
    /\ (IF p[1] < q[1] THEN p[1] ELSE q[1]) <= r[1]
    /\ r[1] <= (IF p[1] < q[1] THEN q[1] ELSE p[1])
    /\ (IF p[2] < q[2] THEN p[2] ELSE q[2]) <= r[2]
    /\ r[2] <= (IF p[2] < q[2] THEN q[2] ELSE p[2])

\* the segments p1 p2 and q1 q2 share a point
SegmentsMeet(p1, p2, q1, q2) ==
    LET d1 == Cross(q1, q2, p1)
        d2 == Cross(q1, q2, p2)
        d3 == Cross(p1, p2, q1)
        d4 == Cross(p1, p2, q2)
    IN \/ d1 * d2 < 0 /\ d3 * d4 < 0
       \/ d1 = 0 /\ Between(q1, q2, p1)
       \/ d2 = 0 /\ Between(q1, q2, p2)
       \/ d3 = 0 /\ Between(p1, p2, q1)
       \/ d4 = 0 /\ Between(p1, p2, q2)

RoutesMeet(i, k) ==
    \E a \in 1 .. Len(routes[i]) - 1 : \E b \in 1 .. Len(routes[k]) - 1 :
        SegmentsMeet(routes[i][a], routes[i][a + 1], routes[k][b], routes[k][b + 1])

\* C4: with pairwise distinct source offsets no two routes share a point
\* (on the calls with sorting enabled whose path follows the ports)
C4_RoutesDisjoint ==
    (/\ Returned
     /\ sort_ports
     /\ PathFollowsPorts
     /\ \A i \in DOMAIN routes : \A k \in DOMAIN routes :
            i # k => offsets_start[i] # offsets_start[k])
        => \A i \in DOMAIN routes : \A k \in DOMAIN routes : i # k => ~RoutesMeet(i, k)

\* C5: a call that returns hands over one route per port pair, route i
\* joining ports1[i] to ports2[i]
C5_OneRoutePerPair ==
    Returned =>
        /\ Len(routes) = Len(ports1)
        /\ Len(routes) = Len(ports2)
        /\ Len(given1) >= 1
        /\ \A i \in 1 .. Len(ports1) : Len(routes[i]) >= 2 /\ Connects(i)

\* a returned call on bundles of MaxPorts ports at different positions
C5_Witness ==
    /\ Returned
    /\ Len(ports1) = MaxPorts
    /\ Len(routes) = MaxPorts
    /\ \A i \in 1 .. MaxPorts : \A k \in 1 .. MaxPorts :
           i # k => position(ports1[i]) # position(ports1[k])

\* C6: on bundles of different lengths the call raises at once: no route,
\* and the caller's two lists exactly as supplied (no angle normalized, no
\* list reordered)
C6_MismatchRaisesFirst ==
    (pc # "call" /\ Len(given1) # Len(given2)) =>
        /\ Raised
        /\ error = "PortCountMismatch"
        /\ routes = << >>
        /\ ports1 = given1
        /\ ports2 = given2

\* a mismatch raised on ports whose angle the normalization would change and
\* whose order the sort would change
C6_Witness ==
    /\ Raised
    /\ error = "PortCountMismatch"
    /\ given1[1].angle \notin Cardinal
    /\ sort_ports
    /\ Len(given1) >= 2
    /\ given1[1].x > given1[2].x

\* C7: a segment of the routing path that is neither horizontal nor vertical
\* makes the call raise, and no route is returned
C7_DiagonalRaises ==
    (/\ pc # "call"
     /\ \E k \in 1 .. Len(RoutingPath) - 1 : ~Aligned(RoutingPath[k], RoutingPath[k + 1]))
        => (Raised /\ error # "none" /\ routes = << >>)

\* a call on several ports raised for a diagonal segment that follows a
\* proper first segment
C7_Witness ==
    /\ Raised
    /\ error = "InvalidPath"
    /\ Len(given1) >= 2
    /\ Len(given1) = Len(given2)
    /\ RoutingPath[1] # RoutingPath[2]
    /\ Aligned(RoutingPath[1], RoutingPath[2])
    /\ ~Aligned(RoutingPath[2], RoutingPath[3])

\* the mid-path offsets C8 states: separation times the index distance from
\* the zero-offset end, signed as the first non-zero start offset
ClaimedMidOffsets ==
    LET n == Len(offsets_start)
        nz == {k \in 1 .. n : offsets_start[k] # 0}
        sgn == IF nz = {} THEN 0
               ELSE Sign(offsets_start[CHOOSE k \in nz : \A h \in nz : k <= h])
    IN [k \in 1 .. n |->
           sgn * separation * (IF offsets_start[1] = 0 THEN k - 1 ELSE n - k)]

\* C8: with a separation and a zero start offset at either end of a bundle
\* of two ports or more, the mid-path offsets are the claimed ones
C8_SeparationOffsets ==
    (/\ pc # "call"
     /\ separation # 0
     /\ Len(offsets_start) >= 2
     /\ (offsets_start[1] = 0 \/ offsets_start[Len(offsets_start)] = 0))
        => offsets_mid = ClaimedMidOffsets

\* the start offsets of the ports in routing order, from the reference port
\* (the caller's first source port)
ReferenceOffsets ==
    [k \in 1 .. Len(ports1) |->
        IF ports1[1].angle \in {0, 180}
        THEN ports1[k].y - given1[1].y
        ELSE ports1[k].x - given1[1].x]

\* C9: with a separation and neither the first nor the last start offset
\* zero, the call raises and returns no route
C9_AmbiguousSeparationRaises ==
    (/\ pc # "call"
     /\ Len(given1) = Len(given2)
     /\ separation # 0
     /\ ReferenceOffsets[1] # 0
     /\ ReferenceOffsets[Len(ports1)] # 0)
        => (/\ Raised
            /\ error \in {"AmbiguousSeparation", "InvalidPath"}
            /\ routes = << >>)

\* the separation error raised because sorting moved the reference port
\* strictly inside the bundle
C9_Witness ==
    /\ Raised
    /\ error = "AmbiguousSeparation"
    /\ sort_ports
    /\ Len(ports1) >= 3
    /\ \E k \in 2 .. Len(ports1) - 1 : ports1[k].name = 1
    /\ ReferenceOffsets[1] < 0
    /\ ReferenceOffsets[Len(ports1)] > 0

\* C10: every port the caller passed has, after the call, the angle it had
\* before
C10_PortsReadOnly ==
    /\ \A k \in DOMAIN ports1 : \A j \in DOMAIN given1 :
           ports1[k].name = given1[j].name => ports1[k].angle = given1[j].angle
    /\ \A k \in DOMAIN ports2 : \A j \in DOMAIN given2 :
           ports2[k].name = given2[j].name => ports2[k].angle = given2[j].angle

\* the sort keys of the two bundles of the call, looked up under the
\* normalized orientations of the caller's first ports
LookedUpKeys ==
    angles_to_sorttypes(given1[1].angle % 360, given2[1].angle % 360)

\* the axis a sort type reads
KeyAxis(st) == IF st \in {"Y", "-Y"} THEN "Y" ELSE "X"

\* the axis perpendicular to an orientation
LateralAxis(angle) == IF angle \in {0, 180} THEN "Y" ELSE "X"

\* `after` holds the ports of `before` (distinct by name), each once, angles
\* normalized
PermutationOf(after, before) ==
    /\ Len(after) = Len(before)
    /\ \A j \in DOMAIN before : \E k \in DOMAIN after : after[k] = normalized(before[j])

\* the lookup is defined on the 16 pairs of cardinal orientations and reads,
\* for each bundle, the axis perpendicular to its orientation
SortLookupDefined ==
    \A a \in Cardinal : \A b \in Cardinal :
        /\ angles_to_sorttypes(a, b) \in {"X", "Y", "-X", "-Y"} \X {"X", "Y", "-X", "-Y"}
        /\ KeyAxis(angles_to_sorttypes(a, b)[1]) = LateralAxis(a)
        /\ KeyAxis(angles_to_sorttypes(a, b)[2]) = LateralAxis(b)

\* `ports` is ordered non-decreasingly under the key of sort type st
OrderedUnder(ports, st) ==
    \A k \in 1 .. Len(ports) - 1 :
        dict_sorts(st, ports[k]) <= dict_sorts(st, ports[k + 1])

\* C11: the sort-key lookup is defined on the 16 pairs of cardinal
\* orientations and reads the axis perpendicular to each bundle's
\* orientation; after a call on bundles of equal length with sorting enabled
\* each bundle is a permutation of its input ordered non-decreasingly under
\* its key, and with sorting disabled both bundles keep their input order
C11_BundlesSorted ==
    /\ SortLookupDefined
    /\ (pc # "call" /\ Len(given1) = Len(given2)) =>
           /\ PermutationOf(ports1, given1)
           /\ PermutationOf(ports2, given2)
           /\ IF sort_ports
              THEN /\ OrderedUnder(ports1, LookedUpKeys[1])
                   /\ OrderedUnder(ports2, LookedUpKeys[2])
              ELSE /\ ports1 = angles_normalized(given1)
                   /\ ports2 = angles_normalized(given2)

\* a sorted call that reordered both bundles, the destination one under a
\* descending key
C11_Witness ==
    /\ Returned
    /\ sort_ports
    /\ Len(given1) = Len(given2)
    /\ Len(given1) >= 3
    /\ ports1 # angles_normalized(given1)
    /\ ports2 # angles_normalized(given2)
    /\ LookedUpKeys[2] \in {"-X", "-Y"}

\* the offsets the displacement step of a call that got that far has used
UsedOffsetsStart == flipped(ports1[1].angle, offsets_start)

UsedOffsetsMid == flipped(ports1[1].angle, offsets_mid)

\* the snapper the destination orientation selects, and the coordinate of
\* port i it snaps to
Snapper(route, c) ==
    IF ports2[1].angle \in {0, 180}
    THEN snap_route_to_end_point_y(route, c)
    ELSE snap_route_to_end_point_x(route, c)

SnapTarget(i) == position(ports2[i])[SnappedCoordinate]

\* r is `raw` with coordinate `axis` of its last two points set to c
SnappedLastTwo(r, raw, axis, c) ==
    /\ Len(r) = Len(raw)
    /\ \A k \in 1 .. Len(raw) :
           IF k <= Len(raw) - 2 THEN r[k] = raw[k]
           ELSE r[k][axis] = c /\ r[k][3 - axis] = raw[k][3 - axis]

\* C12: the snapper returns a route of the same length, its points but the
\* last two unchanged, the last two with the snapped coordinate (Y for a
\* destination orientation 0/180, X otherwise) equal to the destination's and
\* the other coordinate kept; snapping twice is snapping once; the returned
\* route is the snapped one from its second point on
C12_SnapperContract ==
    Returned =>
        \A i \in DOMAIN routes :
            \A raw \in {unsnapped[i]} :
                \A r \in {Snapper(raw, SnapTarget(i))} :
                    /\ Len(raw) >= 2
                    /\ SnappedLastTwo(r, raw, SnappedCoordinate, SnapTarget(i))
                    /\ Snapper(r, SnapTarget(i)) = r
                    /\ \A k \in 2 .. Len(r) : routes[i][k] = r[k]

\* a returned route of four points whose last corner the X snapper moved
C12_Witness ==
    /\ Returned
    /\ ports2[1].angle \in {90, 270}
    /\ Len(routes) >= 2
    /\ Len(routes[2]) >= 4
    /\ routes[2][3] # unsnapped[2][3]
    /\ routes[2][2] = unsnapped[2][2]

\* segment j of the normalized path, from its point j to its point j + 1
PathSegment(j) == <<path[j], path[j + 1]>>

Horizontal(s) == s[1][2] = s[2][2]

Vertical(s) == s[1][1] = s[2][1]

\* the displacement C14 states: a horizontal segment moves by (0, +sign * a),
\* a vertical one by (-sign * a, 0), sign the direction of travel
ClaimedDisplaced(s, a) ==
    IF Horizontal(s)
    THEN LET d == Sign(s[2][1] - s[1][1]) * a
         IN <<<<s[1][1], s[1][2] + d>>, <<s[2][1], s[2][2] + d>>>>
    ELSE LET d == -Sign(s[2][2] - s[1][2]) * a
         IN <<<<s[1][1] + d, s[1][2]>>, <<s[2][1] + d, s[2][2]>>>>

\* an offset, negated when the source bundle faces 90 or 270
NegatedForVertical(offset) ==
    IF ports1[1].angle \in {90, 270} THEN -offset ELSE offset

\* X from the vertical segment, Y from the horizontal one
ClaimedIntersection(s1, s2) ==
    IF Horizontal(s1) /\ Vertical(s2)
    THEN <<s2[1][1], s1[1][2]>>
    ELSE <<s1[1][1], s2[1][2]>>

\* one of the two segments is horizontal and the other vertical
Perpendicular(s1, s2) ==
    \/ Horizontal(s1) /\ Vertical(s2)
    \/ Horizontal(s2) /\ Vertical(s1)

\* the corner C14 states for port i where segment j - 1 meets segment j
\* (j >= 2; the first segment is segment 1)
ClaimedCorner(i, j) ==
    ClaimedIntersection(
        ClaimedDisplaced(PathSegment(j), NegatedForVertical(offsets_mid[i])),
        ClaimedDisplaced(PathSegment(j - 1),
                         NegatedForVertical(IF j = 2 THEN offsets_start[i]
                                            ELSE offsets_mid[i])))

\* C13: the start offsets are port.y - reference.y for a source bundle
\* facing 0/180 and port.x - reference.x otherwise (none for an empty
\* bundle); with no separation the mid-path offsets are the start offsets;
\* and the displacement step uses both negated when the source bundle faces
\* 90/270: the first point the loop computed for each route is the path's
\* displaced by the negated start offset, and its first corner the
\* intersection of the first segment displaced by the negated start offset
\* with the second displaced by the negated mid-path offset
C13_OffsetsAndFlip ==
    /\ get_ports_x_or_y_distances(<< >>, <<0, 0>>) = << >>
    /\ (pc # "call" /\ path # << >>) =>
           /\ offsets_start = ReferenceOffsets
           /\ separation = 0 => offsets_mid = offsets_start
    /\ Returned =>
           \A i \in DOMAIN routes :
               /\ unsnapped[i][1] =
                      ClaimedDisplaced(PathSegment(1),
                                       NegatedForVertical(offsets_start[i]))[1]
               /\ Len(path) >= 3 => unsnapped[i][2] = ClaimedCorner(i, 2)

\* a returned call on a source bundle facing 90/270, without separation,
\* with a port off the reference and a corner before the last
C13_Witness ==
    /\ Returned
    /\ ports1[1].angle \in {90, 270}
    /\ separation = 0
    /\ Len(routes) >= 2
    /\ offsets_start[2] # 0
    /\ offsets_mid = offsets_start
    /\ Len(routes[2]) >= 4

\* C14: in a returned call the corner of route i between two consecutive path
\* segments is the claimed intersection (the corner the loop computed, and
\* the corner of the returned route, whose last corner keeps it in the
\* coordinate the snapper does not overwrite); a call that reaches the loop
\* with two consecutive segments that are not one horizontal and one vertical
\* raises and returns no route
C14_CornersAreIntersections ==
    /\ Returned =>
           \A i \in DOMAIN routes :
               \A j \in 2 .. Len(path) - 1 : \A claimed \in {ClaimedCorner(i, j)} :
                   /\ unsnapped[i][j] = claimed
                   /\ IF j < Len(path) - 1
                      THEN routes[i][j] = claimed
                      ELSE routes[i][j][3 - SnappedCoordinate]
                               = claimed[3 - SnappedCoordinate]
    /\ (/\ pc # "call"
        /\ offsets_mid # << >>
        /\ \E j \in 2 .. Len(path) - 1 : ~Perpendicular(PathSegment(j), PathSegment(j - 1)))
           => (Raised /\ error # "none" /\ routes = << >>)

\* a returned route with two corners after the first point, built with a
\* mid-path offset that differs from the start offset
C14_Witness ==
    /\ Returned
    /\ Len(routes) >= 2
    /\ Len(routes[2]) >= 4
    /\ offsets_mid[2] # offsets_start[2]
    /\ offsets_start[2] # 0
    /\ routes[2][2] # path[2]

\* the route of port i built from port i's own data alone: the shared path
\* and destination orientation, its own two offsets and its own destination
OwnRoute(i) ==
    route_of(<<ports2[i]>>, way_segments_of(path),
             <<UsedOffsetsStart[i]>>, <<UsedOffsetsMid[i]>>, ports2[1].angle, 1).route

\* the points of a route after its first
Rest(route) == SubSeq(route, 2, Len(route))

\* the ports were visited in ascending order, as range(N) does
Ascending == \A k \in DOMAIN order : order[k] = k

\* the bundles, the normalized path and the offset tables are as record r
\* holds them
SharedDataAs(r) ==
    /\ ports1 = r.ports1
    /\ ports2 = r.ports2
    /\ path = r.path
    /\ offsets_start = r.offsets_start
    /\ offsets_mid = r.offsets_mid

C16_SeparationDefinedForAllSizes ==
    /\ (/\ pc # "call"
        /\ separation # 0
        /\ Len(offsets_start) >= 1
        /\ (offsets_start[1] = 0 \/ offsets_start[Len(offsets_start)] = 0))
           => (error # "IndexError" /\ Len(offsets_mid) = Len(offsets_start))
    /\ (/\ pc # "call"
        /\ separation # 0
        /\ Len(given1) = 1
        /\ Len(given2) = 1)
           => \A plain \in {get_bundle_from_waypoints(given1, given2, waypoints,
                                                      sort_ports, 0)} :
                  error = plain.error /\ routes = plain.routes

====
